---- MODULE Spec2Model ----
(***************************************************************************)
(* State-machine model of log-lib's logger (src/unnamed/part_002:157-682,  *)
(* the revision with level filtering and the stacktrace migration; the     *)
(* shared parts agree with src/src/logger.ts).                             *)
(*                                                                         *)
(* One action per entry point: createLogger, each resumption of the        *)
(* asynchronous initializeConnection after an await, every method of the   *)
(* native logger and of the Fastify-compatible logger, the settlement of a *)
(* detached INSERT, the pool's onError callback, the two process-wide      *)
(* fault handlers and the exit timer.  JavaScript handlers run to          *)
(* completion, so each action is atomic; interleaving happens only at      *)
(* awaits and at callbacks.                                                *)
(***************************************************************************)
EXTENDS Integers, Sequences, FiniteSets, TLC

\* ------------------------------------------------------------------ bounds
\* calls the application and the runtime make into the library per process:
\* createLogger calls, log-method calls and fault events together
MaxOps == 3

\* ------------------------------------------------------------------ state
VARIABLES
  ENV_ID,            \* process.env.ENV_ID: "dev" or "prod"
  LOG_LEVEL,         \* process.env.LOG_LEVEL: "" when unset
  conn,              \* module-level pool handle: "null", or a pool, named by where the
                     \* initializeConnection call that assigned it stands now
  dbInitialized,     \* module-level readiness flag
  currentLogLevel,   \* module-level minimum rank
  loggers,           \* number of createLogger calls so far (the loggers keep no state of their own)
  first,             \* what the first createLogger call was given: store settings or not, and the rank resolved
  init,              \* await of initializeConnection -> number of calls suspended there
  failed,            \* some initializeConnection call ended in its catch
  tempOpen,          \* bootstrap connections open (created and not disposed)
  uncaughtHandlers,  \* process.on('uncaughtException') listeners: the logger each closes over
  rejectionHandlers, \* process.on('unhandledRejection') listeners
  calls,             \* log-method calls and fault events so far
  issued,            \* INSERTs issued so far
  early,             \* records storeInDB dropped so far because the store was not ready
  pending,           \* INSERT promises not settled yet
  unhandled,         \* promise rejections nobody handled
  timers,            \* pending setTimeout(() => process.exit(1), 100)
  exited,            \* process.exit ran
  last,              \* what the most recent handler did (its observable effects)
  record,            \* a record on its way through storeInDB's preparation: the lengths of
                     \* its message and serialized metadata, given and as handed to the INSERT
  walk,              \* a run of buildCauseChain: the cause graph, the error it was called
                     \* with, and its locals current, visited and chain
  trace,             \* a call of error or errorEnriched on its way through
                     \* printStackEnhanced: the stack it was given, what it printed and
                     \* the file-system calls it made
  call,              \* a call of error or errorEnriched, made by the application or by a
                     \* fault handler: the values it was given, the message it rendered and
                     \* the message and metadata it handed to storeInDB
  frame              \* a call of buildCodeFrame: the file's line count, the frame's line
                     \* and the lines rendered

\* the state of the logger module and of the process around it
moduleVars == <<ENV_ID, LOG_LEVEL, conn, dbInitialized, currentLogLevel, loggers, first, init,
                failed, tempOpen, uncaughtHandlers, rejectionHandlers, calls, issued, early,
                pending, unhandled, timers, exited, last>>

vars == <<moduleVars, record, walk, trace, call, frame>>

\* ------------------------------------------------------------------ levels
LOG_LEVELS == [debug |-> 0, info |-> 1, warn |-> 2, error |-> 3]

LevelNames == DOMAIN LOG_LEVELS

\* a || b on strings: the empty string is falsy
Or(a, b) == IF a # "" THEN a ELSE b

\* createLogger's resolution of the minimum level
configuredLevel(config) ==
  Or(config.logLevel, Or(LOG_LEVEL, IF ENV_ID = "dev" THEN "debug" ELSE "info"))

\* LOG_LEVELS[configuredLevel] ?? LOG_LEVELS.info
resolveLogLevel(config) ==
  IF configuredLevel(config) \in LevelNames
    THEN LOG_LEVELS[configuredLevel(config)]
    ELSE LOG_LEVELS.info

\* ------------------------------------------------------------------ inputs
Configs == [mysql : BOOLEAN, logLevel : {"", "warn"}]

\* what is remembered of a createLogger call: whether its config had store
\* settings and the minimum rank resolved from it
LoggerOf(config, rank) == [mysql |-> config.mysql, level |-> rank]

\* metadata values: "none" is undefined, "obj" an object that serializes to a
\* string, "func" a function and "tojson" an object whose toJSON returns
\* undefined (JSON.stringify maps both to undefined, not to a string)
Metas == {"none", "obj", "func", "tojson"}

\* <<ENV_ID, LOG_LEVEL>> of the process
Environments == {<<"dev", "">>, <<"prod", "">>, <<"prod", "error">>}

\* the awaits of initializeConnection, in program order
InProgress == {"createDb", "dispose", "createTable", "showColumns", "alter"}

\* where the call that assigned conn can stand: at an await after the
\* assignment, returned normally ("done") or through the catch ("failed")
PoolOwners == {"createTable", "showColumns", "alter", "done", "failed"}

\* operations so far, against MaxOps
Ops == loggers + calls

\* ------------------------------------------------------------------ store state
\* The spec's StoreState, read off the module-level flag and the attempts
StoreState ==
  IF dbInitialized THEN "Ready"
  ELSE IF \E s \in InProgress : init[s] > 0 THEN "Initializing"
  ELSE IF failed THEN "Failed"
  ELSE "Uninitialized"

\* ------------------------------------------------------------------ effects
\* What one handler run did.  op: the entry point; logger: the logger it was
\* called on (0: none); level: the rank handed to log() (-1: none); min: the
\* minimum rank log() compared against; state: the StoreState when it ran;
\* lines: lines log() printed; diag: console.error diagnostics printed;
\* inserts: INSERTs issued; opened: connections opened; stmts: DDL statements
\* issued; raised: an exception reached the caller; effects: the fault
\* handlers' steps in order.
NoEffect ==
  [op |-> "none", logger |-> 0, level |-> -1, min |-> 0, state |-> "Uninitialized",
   lines |-> 0, diag |-> 0, inserts |-> 0, opened |-> 0, stmts |-> 0,
   raised |-> FALSE, failed |-> FALSE, effects |-> <<>>]

Effect(op, l) ==
  [NoEffect EXCEPT !.op = op, !.logger = l, !.min = currentLogLevel,
                   !.state = StoreState]

\* ------------------------------------------------------------------ renderer
\* a log() that prints every record
logUnfiltered(level) == 1

\* log(level, ...): the number of lines it prints; a rank below the minimum
\* returns before formatting
log(level) == IF LOG_LEVELS[level] < currentLogLevel THEN 0 ELSE 1

\* ------------------------------------------------------------------ write path
\* safeMeta: a falsy meta becomes {}
safeMeta(meta) == IF meta = "none" THEN "obj" ELSE meta

\* {stack, name, causeChain, ...metaObj}: spreading keeps an own toJSON and
\* copies nothing from a function
enrichedMeta(meta) == IF safeMeta(meta) = "tojson" THEN "tojson" ELSE "obj"

\* jsonStringify(x): a string, or undefined for what JSON.stringify cannot render
jsonStringify(meta) == IF meta \in {"func", "tojson"} THEN "undefined" ELSE "string"

\* what a call of storeInDB did: skipped by the guard, INSERTs issued,
\* console.error lines printed, and whether it threw to its caller
NoStore == [skipped |-> FALSE, inserts |-> 0, diag |-> 0, raised |-> FALSE]

\* storeInDB with a guard that tests the pool handle only
storeInDBConnOnly(meta) ==
  IF conn = "null" THEN [NoStore EXCEPT !.skipped = TRUE]
  ELSE IF jsonStringify(safeMeta(meta)) = "undefined" THEN [NoStore EXCEPT !.diag = 1]
  ELSE [NoStore EXCEPT !.inserts = 1]

\* storeInDB that keeps the records it could not write and sends them along
\* with the next one
storeInDBQueued(meta) ==
  IF conn = "null" \/ ~dbInitialized THEN [NoStore EXCEPT !.skipped = TRUE]
  ELSE IF jsonStringify(safeMeta(meta)) = "undefined" THEN [NoStore EXCEPT !.diag = 1]
  ELSE [NoStore EXCEPT !.inserts = 1 + early]

\* storeInDB without its guard
storeInDBNoGuard(meta) ==
  IF jsonStringify(safeMeta(meta)) = "undefined" THEN [NoStore EXCEPT !.diag = 1]
  ELSE [NoStore EXCEPT !.inserts = 1]

\* storeInDB(level, message, meta, stacktrace).  The guard returns silently when
\* there is no pool or the flag is unset.  Inside the try, .slice on an
\* undefined jsonStringify result throws; the catch prints and returns.
\* Otherwise conn.query issues the INSERT, detached.
storeInDB(meta) ==
  IF conn = "null" \/ ~dbInitialized THEN [NoStore EXCEPT !.skipped = TRUE]
  ELSE IF jsonStringify(safeMeta(meta)) = "undefined" THEN [NoStore EXCEPT !.diag = 1]
  ELSE [NoStore EXCEPT !.inserts = 1]

\* the calls a log method makes, in program order: log(), then storeInDB() when
\* the method offers its record to the store, then setTimeout(exit) when it exits
methodSteps(offers, exits) ==
  <<"log">> \o (IF offers THEN <<"storeInDB">> ELSE <<>>)
            \o (IF exits THEN <<"schedule">> ELSE <<>>)

\* One call of a log method: log() renders the record and,
\* when the method offers it to the store, storeInDB decides what happens to it;
\* exits: the method ends with setTimeout(() => process.exit(1), 100)
LogCall(op, l, level, meta, offers, exits) ==
  /\ ~exited
  /\ l \in 1..loggers
  /\ Ops < MaxOps
  /\ LET out == IF offers THEN storeInDB(meta) ELSE NoStore
     IN /\ calls' = calls + 1
        /\ issued' = issued + out.inserts
        /\ early' = IF out.skipped THEN early + 1 ELSE early
        /\ pending' = pending + out.inserts
        /\ timers' = IF exits THEN timers + 1 ELSE timers
        /\ last' = [Effect(op, l) EXCEPT
                      !.level = LOG_LEVELS[level],
                      !.lines = log(level),
                      !.diag = out.diag,
                      !.inserts = out.inserts,
                      !.raised = out.raised,
                      !.effects = methodSteps(offers, exits)]
  /\ UNCHANGED <<record, walk, trace, call, frame>>
  /\ UNCHANGED <<ENV_ID, LOG_LEVEL, conn, dbInitialized, currentLogLevel, loggers, first,
                 init, failed, tempOpen, uncaughtHandlers, rejectionHandlers, unhandled,
                 exited>>

\* ------------------------------------------------------------------ native logger
info(l, meta) == LogCall("info", l, "info", meta, TRUE, FALSE)

warn(l, meta) == LogCall("warn", l, "warn", meta, TRUE, FALSE)

\* error(message, meta): an Error instance is stored with the enriched metadata,
\* anything else with the caller's metadata
error(l, isError, meta) ==
  LogCall("error", l, "error", IF isError THEN enrichedMeta(meta) ELSE meta, TRUE, FALSE)

errorEnriched(l, isError, meta) ==
  LogCall("errorEnriched", l, "error", IF isError THEN enrichedMeta(meta) ELSE meta,
          TRUE, FALSE)

\* debug that also hands its record to storeInDB
debugStored(l, meta) == LogCall("debug", l, "debug", meta, TRUE, FALSE)

\* debug only renders
debug(l, meta) == LogCall("debug", l, "debug", meta, FALSE, FALSE)

\* ------------------------------------------------------------------ Fastify logger
\* info renders without metadata and does not store
fastifyInfo(l) == LogCall("fastify.info", l, "info", "none", FALSE, FALSE)

\* error takes its metadata from args[0]
fastifyError(l, meta) == LogCall("fastify.error", l, "error", meta, TRUE, FALSE)

fastifyWarn(l) == LogCall("fastify.warn", l, "warn", "none", TRUE, FALSE)

fastifyDebug(l) == LogCall("fastify.debug", l, "debug", "none", FALSE, FALSE)

\* a fatal that schedules the exit first and returns without storing
fatalExitsFirst(l) == LogCall("fatal", l, "error", "none", FALSE, TRUE)

\* fatal renders and stores at error severity, then setTimeout(exit, 100)
fatal(l) == LogCall("fatal", l, "error", "none", TRUE, TRUE)

\* no record is being prepared
NoRecord == [stage |-> "none"]

\* buildCauseChain is not running
NoWalk == [stage |-> "none"]

\* no stack is being printed
NoTrace == [stage |-> "none"]

\* error is not being called
NoCall == [stage |-> "none"]

\* buildCodeFrame is not being called
NoFrame == [stage |-> "none"]

\* the module has been loaded: its top-level statements ran, createLogger was
\* not called yet
Loaded ==
  /\ \E env \in Environments : ENV_ID = env[1] /\ LOG_LEVEL = env[2]
  /\ conn = "null"
  /\ dbInitialized = FALSE
  /\ currentLogLevel = LOG_LEVELS.info
  /\ loggers = 0
  /\ first = LoggerOf([mysql |-> FALSE], LOG_LEVELS.info)
  /\ init = [s \in InProgress |-> 0]
  /\ failed = FALSE
  /\ tempOpen = 0
  /\ uncaughtHandlers = <<>>
  /\ rejectionHandlers = <<>>
  /\ calls = 0
  /\ issued = 0
  /\ early = 0
  /\ pending = 0
  /\ unhandled = 0
  /\ timers = 0
  /\ exited = FALSE
  /\ last = NoEffect

Init ==
  /\ Loaded
  /\ record = NoRecord
  /\ walk = NoWalk
  /\ trace = NoTrace
  /\ call = NoCall
  /\ frame = NoFrame

\* ------------------------------------------------------------------ detached INSERT
\* a detached INSERT with no completion handler: its rejection is unhandled
insertNoCatch == [diag |-> 0, unhandled |-> 1]

\* .catch(e => { if (ENV_ID === 'dev') console.error(...) }): what the completion
\* handler does with a rejection
insertCatch == [diag |-> IF ENV_ID = "dev" THEN 1 ELSE 0, unhandled |-> 0]

\* the promise of a detached INSERT settles
insertSettled(ok) ==
  /\ ~exited
  /\ pending > 0
  /\ pending' = pending - 1
  /\ unhandled' = IF ok THEN unhandled ELSE unhandled + insertCatch.unhandled
  /\ last' = [Effect("insertSettled", 0) EXCEPT
                !.failed = ~ok,
                !.diag = IF ok THEN 0 ELSE insertCatch.diag]
  /\ UNCHANGED <<record, walk, trace, call, frame>>
  /\ UNCHANGED <<ENV_ID, LOG_LEVEL, conn, dbInitialized, currentLogLevel, loggers, first,
                 init, failed, tempOpen, uncaughtHandlers, rejectionHandlers, calls, issued,
                 early, timers, exited>>

\* the pool's onError callback: known transient warnings are suppressed, any
\* other error is printed
poolError(known) ==
  /\ ~exited
  /\ conn # "null"
  /\ last' = [Effect("poolError", 0) EXCEPT !.failed = TRUE,
                                            !.diag = IF known THEN 0 ELSE 1]
  /\ UNCHANGED <<record, walk, trace, call, frame>>
  /\ UNCHANGED <<ENV_ID, LOG_LEVEL, conn, dbInitialized, currentLogLevel, loggers, first,
                 init, failed, tempOpen, uncaughtHandlers, rejectionHandlers, calls, issued,
                 early, pending, unhandled, timers, exited>>

\* ------------------------------------------------------------------ initialization
\* initializeConnection's guard: it returns at once when the flag is set or the
\* config has no store settings
initializeConnectionReturns(config) == dbInitialized \/ ~config.mysql

\* the catch around the whole of initializeConnection: the failure is printed and
\* the call returns; nothing is thrown to createLogger
initFailed(op) == [Effect(op, 0) EXCEPT !.failed = TRUE, !.diag = 1]

\* a call suspended at await `from` resumes and suspends at `to`, or returns
\* when `to` is no await
Move(from, to) ==
  [s \in InProgress |->
     init[s] - (IF s = from THEN 1 ELSE 0) + (IF s = to THEN 1 ELSE 0)]

\* a call is suspended at await s; own tells whether it is the call that
\* assigned the pool conn holds now
Suspended(s, own) ==
  IF own THEN conn = s ELSE init[s] > (IF conn = s THEN 1 ELSE 0)

\* createLogger(config): sets the module-level minimum rank, starts
\* initializeConnection without awaiting it (its synchronous part runs here: the
\* guard, the bootstrap pool and the CREATE DATABASE statement), builds the two
\* loggers and registers the two process-wide handlers.  tempOk: whether
\* creating the bootstrap pool succeeds
createLogger(config, tempOk) ==
  /\ ~exited
  /\ Ops < MaxOps
  /\ LET starts == config.mysql /\ ~initializeConnectionReturns(config)
     IN /\ currentLogLevel' = resolveLogLevel(config)
        /\ loggers' = loggers + 1
        /\ first' = IF loggers = 0 THEN LoggerOf(config, resolveLogLevel(config)) ELSE first
        /\ init' = IF starts /\ tempOk THEN Move("none", "createDb") ELSE init
        /\ failed' = (failed \/ (starts /\ ~tempOk))
        /\ tempOpen' = IF starts /\ tempOk THEN tempOpen + 1 ELSE tempOpen
        /\ uncaughtHandlers' = Append(uncaughtHandlers, loggers + 1)
        /\ rejectionHandlers' = Append(rejectionHandlers, loggers + 1)
        /\ last' = [Effect("createLogger", loggers + 1) EXCEPT
                      !.min = resolveLogLevel(config),
                      !.opened = IF starts /\ tempOk THEN 1 ELSE 0,
                      !.stmts = IF starts /\ tempOk THEN 1 ELSE 0,
                      !.failed = starts /\ ~tempOk,
                      !.diag = IF starts /\ ~tempOk THEN 1 ELSE 0]
  /\ UNCHANGED <<record, walk, trace, call, frame>>
  /\ UNCHANGED <<ENV_ID, LOG_LEVEL, conn, dbInitialized, calls, issued, early,
                 pending, unhandled, timers, exited>>

\* a CREATE DATABASE failure whose catch also clears the readiness flag
createDatabaseSettledResets(ok) ==
  /\ ~exited
  /\ Suspended("createDb", FALSE)
  /\ init' = Move("createDb", IF ok THEN "dispose" ELSE "failed")
  /\ failed' = (failed \/ ~ok)
  /\ dbInitialized' = (dbInitialized /\ ok)
  /\ last' = IF ok THEN Effect("createDatabaseSettled", 0)
                   ELSE initFailed("createDatabaseSettled")
  /\ UNCHANGED <<record, walk, trace, call, frame>>
  /\ UNCHANGED <<ENV_ID, LOG_LEVEL, conn, currentLogLevel, loggers, first,
                 tempOpen, uncaughtHandlers, rejectionHandlers, calls, issued, early,
                 pending, unhandled, timers, exited>>

\* await tempConn.query(CREATE DATABASE IF NOT EXISTS ...) settles; on success
\* tempConn.dispose() is called
createDatabaseSettled(ok) ==
  /\ ~exited
  /\ Suspended("createDb", FALSE)
  /\ init' = Move("createDb", IF ok THEN "dispose" ELSE "failed")
  /\ failed' = (failed \/ ~ok)
  /\ last' = IF ok THEN Effect("createDatabaseSettled", 0)
                   ELSE initFailed("createDatabaseSettled")
  /\ UNCHANGED <<record, walk, trace, call, frame>>
  /\ UNCHANGED <<ENV_ID, LOG_LEVEL, conn, dbInitialized, currentLogLevel, loggers, first,
                 tempOpen, uncaughtHandlers, rejectionHandlers, calls, issued, early,
                 pending, unhandled, timers, exited>>

\* await tempConn.dispose() settles; on success the main pool is created and
\* assigned to conn, and CREATE TABLE is issued on it.  poolOk: whether creating
\* the main pool succeeds
disposeSettled(ok, poolOk) ==
  /\ ~exited
  /\ Suspended("dispose", FALSE)
  /\ tempOpen' = IF ok THEN tempOpen - 1 ELSE tempOpen
  /\ conn' = IF ok /\ poolOk THEN "createTable" ELSE conn
  /\ init' = Move("dispose", IF ok /\ poolOk THEN "createTable" ELSE "failed")
  /\ failed' = (failed \/ ~(ok /\ poolOk))
  /\ last' = IF ok /\ poolOk
               THEN [Effect("disposeSettled", 0) EXCEPT !.opened = 1, !.stmts = 1]
               ELSE initFailed("disposeSettled")
  /\ UNCHANGED <<record, walk, trace, call, frame>>
  /\ UNCHANGED <<ENV_ID, LOG_LEVEL, dbInitialized, currentLogLevel, loggers, first,
                 uncaughtHandlers, rejectionHandlers, calls, issued, early, pending,
                 unhandled, timers, exited>>

\* a CREATE TABLE step that sets the readiness flag itself, before the migration
createTableSettledSetsReady(own, ok) ==
  /\ ~exited
  /\ Suspended("createTable", own)
  /\ init' = Move("createTable", IF ok THEN "showColumns" ELSE "failed")
  /\ failed' = (failed \/ ~ok)
  /\ conn' = IF own THEN (IF ok THEN "showColumns" ELSE "failed") ELSE conn
  /\ dbInitialized' = (dbInitialized \/ ok)
  /\ last' = IF ok THEN [Effect("createTableSettled", 0) EXCEPT !.stmts = 1]
                   ELSE initFailed("createTableSettled")
  /\ UNCHANGED <<record, walk, trace, call, frame>>
  /\ UNCHANGED <<ENV_ID, LOG_LEVEL, currentLogLevel, loggers, first,
                 tempOpen, uncaughtHandlers, rejectionHandlers, calls, issued, early,
                 pending, unhandled, timers, exited>>

\* await conn.query(CREATE TABLE IF NOT EXISTS ...) settles; on success the
\* migration's SHOW COLUMNS is issued
createTableSettled(own, ok) ==
  /\ ~exited
  /\ Suspended("createTable", own)
  /\ init' = Move("createTable", IF ok THEN "showColumns" ELSE "failed")
  /\ failed' = (failed \/ ~ok)
  /\ conn' = IF own THEN (IF ok THEN "showColumns" ELSE "failed") ELSE conn
  /\ last' = IF ok THEN [Effect("createTableSettled", 0) EXCEPT !.stmts = 1]
                   ELSE initFailed("createTableSettled")
  /\ UNCHANGED <<record, walk, trace, call, frame>>
  /\ UNCHANGED <<ENV_ID, LOG_LEVEL, dbInitialized, currentLogLevel, loggers, first,
                 tempOpen, uncaughtHandlers, rejectionHandlers, calls, issued, early,
                 pending, unhandled, timers, exited>>

\* await conn.query(SHOW COLUMNS ...) settles: with the column present the flag
\* is set; with it absent ALTER TABLE is issued; a rejection is caught by the
\* migration's own try, printed, and the flag is set
showColumnsSettled(own, res) ==
  /\ ~exited
  /\ Suspended("showColumns", own)
  /\ init' = Move("showColumns", IF res = "absent" THEN "alter" ELSE "done")
  /\ conn' = IF own THEN (IF res = "absent" THEN "alter" ELSE "done") ELSE conn
  /\ dbInitialized' = IF res = "absent" THEN dbInitialized ELSE TRUE
  /\ last' = [Effect("showColumnsSettled", 0) EXCEPT
                !.stmts = IF res = "absent" THEN 1 ELSE 0,
                !.diag = IF res = "failed" THEN 1 ELSE 0]
  /\ UNCHANGED <<record, walk, trace, call, frame>>
  /\ UNCHANGED <<ENV_ID, LOG_LEVEL, currentLogLevel, loggers, first, failed, tempOpen,
                 uncaughtHandlers, rejectionHandlers, calls, issued, early, pending,
                 unhandled, timers, exited>>

\* an ALTER TABLE whose rejection reaches the catch around initializeConnection
alterSettledAborts(own, ok) ==
  /\ ~exited
  /\ Suspended("alter", own)
  /\ init' = Move("alter", IF ok THEN "done" ELSE "failed")
  /\ conn' = IF own THEN (IF ok THEN "done" ELSE "failed") ELSE conn
  /\ dbInitialized' = (dbInitialized \/ ok)
  /\ failed' = (failed \/ ~ok)
  /\ last' = IF ok THEN Effect("alterSettled", 0) ELSE initFailed("alterSettled")
  /\ UNCHANGED <<record, walk, trace, call, frame>>
  /\ UNCHANGED <<ENV_ID, LOG_LEVEL, currentLogLevel, loggers, first, tempOpen,
                 uncaughtHandlers, rejectionHandlers, calls, issued, early, pending,
                 unhandled, timers, exited>>

\* await conn.query(ALTER TABLE ...) settles: either way the flag is set
alterSettled(own, ok) ==
  /\ ~exited
  /\ Suspended("alter", own)
  /\ init' = Move("alter", "done")
  /\ conn' = IF own THEN "done" ELSE conn
  /\ dbInitialized' = TRUE
  /\ last' = [Effect("alterSettled", 0) EXCEPT !.diag = IF ok THEN 0 ELSE 1]
  /\ UNCHANGED <<record, walk, trace, call, frame>>
  /\ UNCHANGED <<ENV_ID, LOG_LEVEL, currentLogLevel, loggers, first, failed, tempOpen,
                 uncaughtHandlers, rejectionHandlers, calls, issued, early, pending,
                 unhandled, timers, exited>>

\* ------------------------------------------------------------------ fault hooks
RECURSIVE Repeat(_, _)
Repeat(s, n) == IF n = 0 THEN <<>> ELSE s \o Repeat(s, n - 1)

\* an uncaughtException listener whose setTimeout sits inside the try, after
\* logger.error: a throw skips it
uncaughtExceptionHandlerInTry(facadeThrows) ==
  [effects |-> IF facadeThrows THEN <<"raw", "facade">>
                               ELSE <<"raw", "facade", "schedule">>,
   timers |-> IF facadeThrows THEN 0 ELSE 1,
   diag |-> IF facadeThrows THEN 1 ELSE 0]

\* one run of the uncaughtException listener: console.error of the fault, then
\* logger.error inside a try whose catch prints, then setTimeout(exit, 100)
uncaughtExceptionHandler(facadeThrows) ==
  [effects |-> <<"raw", "facade", "schedule">>, timers |-> 1,
   diag |-> IF facadeThrows THEN 1 ELSE 0]

\* an unhandledRejection listener that schedules the exit like the other one
unhandledRejectionHandlerExits(facadeThrows) ==
  [effects |-> <<"raw", "facade", "schedule">>, timers |-> 1,
   diag |-> IF facadeThrows THEN 1 ELSE 0]

\* one run of the unhandledRejection listener: the same without the timer
unhandledRejectionHandler(facadeThrows) ==
  [effects |-> <<"raw", "facade">>, timers |-> 0,
   diag |-> IF facadeThrows THEN 1 ELSE 0]

\* The process emits a fault event: every registered listener runs, in
\* registration order.  Each calls logger.error(<label>, fault): a string
\* message with the fault as metadata, rendered at error rank and offered to
\* the store.  facadeThrows: logger.error throws before it renders
Fault(op, handlers, run, facadeThrows) ==
  /\ ~exited
  /\ Len(handlers) > 0
  /\ Ops < MaxOps
  /\ LET n == Len(handlers)
         out == IF facadeThrows THEN NoStore ELSE storeInDB("obj")
     IN /\ calls' = calls + 1
        /\ issued' = issued + n * out.inserts
        /\ early' = IF out.skipped THEN early + n ELSE early
        /\ pending' = pending + n * out.inserts
        /\ timers' = timers + n * run.timers
        /\ last' = [Effect(op, 0) EXCEPT
                      !.level = LOG_LEVELS.error,
                      !.lines = IF facadeThrows THEN 0 ELSE n * log("error"),
                      !.diag = n * (run.diag + out.diag),
                      !.inserts = n * out.inserts,
                      !.failed = facadeThrows,
                      !.effects = Repeat(run.effects, n)]
  /\ UNCHANGED <<record, walk, trace, call, frame>>
  /\ UNCHANGED <<ENV_ID, LOG_LEVEL, conn, dbInitialized, currentLogLevel, loggers, first,
                 init, failed, tempOpen, uncaughtHandlers, rejectionHandlers, unhandled,
                 exited>>

uncaughtException(facadeThrows) ==
  Fault("uncaughtException", uncaughtHandlers, uncaughtExceptionHandler(facadeThrows),
        facadeThrows)

unhandledRejection(facadeThrows) ==
  Fault("unhandledRejection", rejectionHandlers,
        unhandledRejectionHandler(facadeThrows), facadeThrows)

\* a pending exit timer fires: process.exit(1)
exitTimer ==
  /\ ~exited
  /\ timers > 0
  /\ exited' = TRUE
  /\ UNCHANGED <<record, walk, trace, call, frame>>
  /\ UNCHANGED <<ENV_ID, LOG_LEVEL, conn, dbInitialized, currentLogLevel, loggers, first,
                 init, failed, tempOpen, uncaughtHandlers, rejectionHandlers, calls, issued,
                 early, pending, unhandled, timers, last>>

\* ------------------------------------------------------------------ specification
LoggerIds == 1..MaxOps

Next ==
  \/ \E config \in Configs, tempOk \in BOOLEAN : createLogger(config, tempOk)
  \/ \E ok \in BOOLEAN : createDatabaseSettled(ok)
  \/ \E ok \in BOOLEAN, poolOk \in BOOLEAN : disposeSettled(ok, poolOk)
  \/ \E own \in BOOLEAN, ok \in BOOLEAN : createTableSettled(own, ok)
  \/ \E own \in BOOLEAN, res \in {"present", "absent", "failed"} : showColumnsSettled(own, res)
  \/ \E own \in BOOLEAN, ok \in BOOLEAN : alterSettled(own, ok)
  \/ \E l \in LoggerIds, meta \in Metas : info(l, meta)
  \/ \E l \in LoggerIds, meta \in Metas : warn(l, meta)
  \/ \E l \in LoggerIds, isError \in BOOLEAN, meta \in Metas : error(l, isError, meta)
  \/ \E l \in LoggerIds, isError \in BOOLEAN, meta \in Metas : errorEnriched(l, isError, meta)
  \/ \E l \in LoggerIds, meta \in Metas : debug(l, meta)
  \/ \E l \in LoggerIds : fastifyInfo(l)
  \/ \E l \in LoggerIds, meta \in Metas : fastifyError(l, meta)
  \/ \E l \in LoggerIds : fastifyWarn(l)
  \/ \E l \in LoggerIds : fastifyDebug(l)
  \/ \E l \in LoggerIds : fatal(l)
  \/ \E ok \in BOOLEAN : insertSettled(ok)
  \/ \E known \in BOOLEAN : poolError(known)
  \/ \E facadeThrows \in BOOLEAN : uncaughtException(facadeThrows)
  \/ \E facadeThrows \in BOOLEAN : unhandledRejection(facadeThrows)
  \/ exitTimer

Spec == Init /\ [][Next]_vars

\* the event loop runs a timer that is due: a scheduled exit happens
FairSpec == Spec /\ WF_vars(exitTimer)

TypeOK ==
  /\ conn \in {"null"} \cup PoolOwners
  /\ conn \in InProgress => init[conn] > 0
  /\ dbInitialized \in BOOLEAN
  /\ currentLogLevel \in 0..3
  /\ Ops <= MaxOps
  /\ init \in [InProgress -> 0..MaxOps]
  /\ tempOpen \in 0..MaxOps
  /\ issued \in Nat /\ early \in Nat
  /\ pending \in 0..issued
  /\ timers \in Nat
  /\ exited \in BOOLEAN

\* ------------------------------------------------------------------ record preparation
\* the 2000 of .slice(0, 2000)
SliceLimit == 2000

\* how far below and above SliceLimit the lengths tried go
MaxExcess == 2

\* lengths of a text, in characters: empty, and around the limit
Lengths == {0} \cup ((SliceLimit - MaxExcess)..(SliceLimit + MaxExcess))

\* what a message can be: a string; an object with a string .message; another
\* object, rendered by jsonStringify; anything else, rendered by String()
MessageKinds == {"string", "withMessage", "object", "other"}

\* text.slice(0, n) keeps the first n characters: its length
slice(len, n) == IF len < n THEN len ELSE n

\* safeToStringMessage(message), as the length of its result, len being the
\* length of the text the message yields: only the jsonStringify branch slices
safeToStringMessage(kind, len) ==
  IF kind = "object" THEN slice(len, SliceLimit) ELSE len

\* the records offered: a message of some kind and length, and metadata whose
\* serialization has some length
Records ==
  [stage : {"offered"}, kind : MessageKinds, message : Lengths, meta : Lengths,
   msg : {0}, metaStr : {0}, raised : {FALSE}]

\* storeInDB's try block up to conn.query: msg = safeToStringMessage(message),
\* metaStr = jsonStringify(metaObj).slice(0, 2000), both handed to the INSERT
prepareRecord ==
  /\ record.stage = "offered"
  /\ record' = [record EXCEPT
                  !.stage = "stored",
                  !.msg = safeToStringMessage(record.kind, record.message),
                  !.metaStr = slice(record.meta, SliceLimit)]
  /\ UNCHANGED <<moduleVars, walk, trace, call, frame>>

\* a record reaches storeInDB's try block; the module's own state plays no part
PrepareInit ==
  /\ Loaded
  /\ ENV_ID = "prod"
  /\ LOG_LEVEL = ""
  /\ walk = NoWalk
  /\ trace = NoTrace
  /\ call = NoCall
  /\ frame = NoFrame
  /\ record \in Records

PrepareNext == prepareRecord

PrepareSpec == PrepareInit /\ [][PrepareNext]_vars

\* ------------------------------------------------------------------ cause chain
\* objects in a cause graph
MaxNodes == 3

Nodes == 1..MaxNodes

\* no object: a missing .cause, or one that is not an object
NoNode == 0

\* the cause graphs: every object's .cause is an object of the graph or none
CauseGraphs == [Nodes -> Nodes \cup {NoNode}]

\* the title pushed for an object: 'name: message' when it has a name, else
\* safeToStringMessage of it
Title(w, n) == IF n \in w.named THEN <<"name: message", n>> ELSE <<"text", n>>

\* the elements of a sequence
Range(s) == {s[i] : i \in DOMAIN s}

\* a loop that does not look at visited
walkContinuesUnguarded(w) == w.current # NoNode

\* the loop condition: current && typeof current === 'object' && !visited.has(current)
walkContinues(w) == w.current # NoNode /\ w.current \notin Range(w.visited)

\* a walk that pushes the title of every object, the error's own too
pushesEvery(w) == TRUE

\* if (current !== err): the error's own title is not pushed
pushes(w) == w.current # w.err

\* buildCauseChain(err) is entered: chain = [], visited = new Set(), current = err
\* (visited is kept in insertion order, as a JavaScript Set keeps it)
Walks ==
  [stage : {"loop"}, cause : CauseGraphs, named : SUBSET Nodes, err : Nodes,
   current : Nodes, visited : {<<>>}, chain : {<<>>}]

\* one iteration of the while loop
buildCauseChainStep ==
  /\ walk.stage = "loop"
  /\ walkContinues(walk)
  /\ walk' = [walk EXCEPT
                !.visited = Append(@, walk.current),
                !.chain = IF pushes(walk) THEN Append(@, Title(walk, walk.current)) ELSE @,
                !.current = walk.cause[walk.current]]
  /\ UNCHANGED <<moduleVars, record, trace, call, frame>>

\* the loop condition fails: return chain
buildCauseChainReturn ==
  /\ walk.stage = "loop"
  /\ ~walkContinues(walk)
  /\ walk' = [walk EXCEPT !.stage = "returned"]
  /\ UNCHANGED <<moduleVars, record, trace, call, frame>>

\* error() or errorEnriched() calls buildCauseChain with an Error of some graph
ChainInit ==
  /\ Loaded
  /\ ENV_ID = "prod"
  /\ LOG_LEVEL = ""
  /\ record = NoRecord
  /\ trace = NoTrace
  /\ call = NoCall
  /\ frame = NoFrame
  /\ walk \in {w \in Walks : w.current = w.err}

ChainNext == buildCauseChainStep \/ buildCauseChainReturn

ChainSpec == ChainInit /\ [][ChainNext]_vars

\* the loop is synchronous code: it keeps running until it returns
ChainFairSpec == ChainSpec /\ WF_vars(ChainNext)

\* ------------------------------------------------------------------ stack printing
\* what the value handed to printStackEnhanced carries as .stack: "none", no
\* string; "plain", a string without a project .ts frame, called from a place
\* whose callsite has none either; "callsite", the same called from a place
\* whose callsite has one; "frame", a string with a resolvable project frame
StackKinds == {"none", "plain", "callsite", "frame"}

\* the calls that reach the stack printing: the method, whether its argument is
\* an Error instance, the stack, and whether the frame's file exists on disk
Traces ==
  [stage : {"called"}, method : {"error", "errorEnriched"}, isError : BOOLEAN,
   stack : StackKinds, fileExists : BOOLEAN,
   lines : {0}, existsSync : {0}, readFileSync : {0}]

\* what printStackEnhanced did
NoPrint == [lines |-> 0, existsSync |-> 0, readFileSync |-> 0]

\* a printStackEnhanced that builds the code frame in every environment
printStackEnhancedUngated(t) ==
  IF t.stack = "none" THEN NoPrint
  ELSE LET hasFrame == t.stack = "frame" \/ (ENV_ID = "dev" /\ t.stack = "callsite")
       IN [lines |-> 1,
           existsSync |-> IF hasFrame THEN 1 ELSE 0,
           readFileSync |-> IF hasFrame /\ t.fileExists THEN 1 ELSE 0]

\* printStackEnhanced(possibleError): returns when there is no string stack;
\* in dev appends the callsite's project frames to a stack that has none;
\* prints the formatted stack; and, in dev only, extracts the first project
\* frame and has buildCodeFrame look the file up (fs.existsSync) and read it
\* (fs.readFileSync) when it exists
printStackEnhanced(t) ==
  IF t.stack = "none" THEN NoPrint
  ELSE LET hasFrame == t.stack = "frame" \/ (ENV_ID = "dev" /\ t.stack = "callsite")
           dev == ENV_ID = "dev"
       IN [lines |-> 1,
           existsSync |-> IF dev /\ hasFrame THEN 1 ELSE 0,
           readFileSync |-> IF dev /\ hasFrame /\ t.fileExists THEN 1 ELSE 0]

\* error() and errorEnriched() after log(): an Error instance is handed to
\* printStackEnhanced when it has a stack, anything else always
errorPrintsStack ==
  /\ trace.stage = "called"
  /\ LET out == printStackEnhanced(trace)
     IN trace' = [trace EXCEPT !.stage = "printed",
                               !.lines = out.lines,
                               !.existsSync = out.existsSync,
                               !.readFileSync = out.readFileSync]
  /\ UNCHANGED <<moduleVars, record, walk, call, frame>>

\* error or errorEnriched is called in some environment
TraceInit ==
  /\ Loaded
  /\ record = NoRecord
  /\ walk = NoWalk
  /\ call = NoCall
  /\ frame = NoFrame
  /\ trace \in Traces

TraceNext == errorPrintsStack

TraceSpec == TraceInit /\ [][TraceNext]_vars

\* ------------------------------------------------------------------ error path
\* what error and errorEnriched can be handed: an Error instance; a plain
\* object that serializes ("object"), one whose serialization is undefined
\* ("unserializable": its toJSON returns undefined), one with a string
\* .message ("withMessage"); a string, a number, null, undefined
Values ==
  {"Error", "object", "unserializable", "withMessage", "string", "number", "null",
   "undefined"}

\* the string constant a fault handler passes as message: 'UncaughtException'
\* or 'UnhandledRejection'
Label == "label"

\* a safeToStringMessage whose slice is not inside a try
messageTextNoCatch(v) ==
  IF v \in {"string", Label} THEN [text |-> <<"itself", v>>, raised |-> FALSE]
  ELSE IF v \in {"Error", "withMessage"} THEN [text |-> <<".message", v>>, raised |-> FALSE]
  ELSE IF v = "object" THEN [text |-> <<"json", v>>, raised |-> FALSE]
  ELSE IF v = "unserializable" THEN [text |-> <<"none", v>>, raised |-> TRUE]
  ELSE [text |-> <<"String()", v>>, raised |-> FALSE]

\* safeToStringMessage(message), as the text it returns, <<how, of what>>: a
\* string itself; the .message of an object that has one; the jsonStringify
\* rendering of another object, or String() of it when .slice throws on an
\* undefined rendering (the catch); String() of anything else
messageText(v) ==
  IF v \in {"string", Label} THEN [text |-> <<"itself", v>>, raised |-> FALSE]
  ELSE IF v \in {"Error", "withMessage"} THEN [text |-> <<".message", v>>, raised |-> FALSE]
  ELSE IF v = "object" THEN [text |-> <<"json", v>>, raised |-> FALSE]
  ELSE [text |-> <<"String()", v>>, raised |-> FALSE]

\* what a call of error or errorEnriched did: the message of its console line
\* and the one handed to storeInDB, each with or without the context prefix;
\* the metadata handed to storeInDB; whether buildCauseChain ran; whether an
\* exception reached the caller
Outcome(context, c, meta, walked) ==
  [line |-> [context |-> context, text |-> c.text],
   stored |-> [context |-> context, text |-> c.text],
   storedMeta |-> meta, walked |-> walked, raised |-> c.raised]

\* logger.error(message, meta): an Error instance is rendered and stored by its
\* .message, its cause chain walked and its metadata enriched; anything else
\* goes through safeToStringMessage with the metadata as given
errorPath(message, meta) ==
  IF message = "Error"
    THEN Outcome(FALSE, [text |-> <<".message", message>>, raised |-> FALSE],
                 "enriched", TRUE)
    ELSE Outcome(FALSE, messageText(message), meta, FALSE)

\* logger.errorEnriched(message, error, meta): `${message}: ${error.message}`
\* for an Error instance, `${message}: ${safeToStringMessage(error)}` otherwise
errorEnrichedPath(err, meta) ==
  IF err = "Error"
    THEN Outcome(TRUE, [text |-> <<".message", err>>, raised |-> FALSE], "enriched", TRUE)
    ELSE Outcome(TRUE, messageText(err), meta, FALSE)

\* the calls: by the application, with a value and metadata; by a fault
\* handler, with the fault
Calls ==
  [stage : {"called"}, via : {"error", "errorEnriched"}, value : Values, meta : Metas,
   out : {<<>>}]
  \cup [stage : {"called"}, via : {"uncaughtException", "unhandledRejection"},
         value : Values, meta : {"none"}, out : {<<>>}]

\* the application's logger.error(value, meta) returns
errorReturns ==
  /\ call.stage = "called"
  /\ call.via = "error"
  /\ call' = [call EXCEPT !.stage = "returned",
                          !.out = errorPath(call.value, safeMeta(call.meta))]
  /\ UNCHANGED <<moduleVars, record, walk, trace, frame>>

\* the application's logger.errorEnriched(context, value, meta) returns
errorEnrichedReturns ==
  /\ call.stage = "called"
  /\ call.via = "errorEnriched"
  /\ call' = [call EXCEPT !.stage = "returned",
                          !.out = errorEnrichedPath(call.value, safeMeta(call.meta))]
  /\ UNCHANGED <<moduleVars, record, walk, trace, frame>>

\* a fault handler's logger.error('UncaughtException', err) or
\* logger.error('UnhandledRejection', reason) returns: the label is the
\* message argument and the fault the meta argument
handlerRoutesFault ==
  /\ call.stage = "called"
  /\ call.via \in {"uncaughtException", "unhandledRejection"}
  /\ call' = [call EXCEPT !.stage = "returned",
                          !.out = errorPath(Label, call.value)]
  /\ UNCHANGED <<moduleVars, record, walk, trace, frame>>

\* error or errorEnriched is called
CallInit ==
  /\ Loaded
  /\ ENV_ID = "prod"
  /\ LOG_LEVEL = ""
  /\ record = NoRecord
  /\ walk = NoWalk
  /\ trace = NoTrace
  /\ frame = NoFrame
  /\ call \in Calls

CallNext == errorReturns \/ errorEnrichedReturns \/ handlerRoutesFault

CallSpec == CallInit /\ [][CallNext]_vars

\* ------------------------------------------------------------------ code frame
\* lines of the longest file tried
MaxLines == 6

\* how far before line 1 and beyond the longest file the frame's line goes
MaxOutside == 3

\* Math.max and Math.min
max(a, b) == IF a > b THEN a ELSE b

min(a, b) == IF a < b THEN a ELSE b

\* the calls of buildCodeFrame with a frame that names a file and a line: whether
\* the file exists and can be read, its number of lines (content.length) and
\* the frame's line
Frames ==
  [stage : {"called"}, readable : BOOLEAN, length : 1..MaxLines,
   line : (0 - MaxOutside)..(MaxLines + MaxOutside), out : {<<>>}, marked : {{}}]

\* the 1-based numbers of the lines the loop renders: i + 1 for
\* i = start .. end - 1, with start = Math.max(0, line - 3) and
\* end = Math.min(content.length, line + 2)
renderedLines(f) ==
  LET start == max(0, f.line - 3)
      end == min(f.length, f.line + 2)
  IN [k \in 1..max(0, end - start) |-> start + k]

\* buildCodeFrame(frame): nothing when the file is missing or reading it
\* throws (the catch); otherwise the rendered lines, the one whose number is
\* the frame's line carrying the marker
buildCodeFrame ==
  /\ frame.stage = "called"
  /\ LET lines == IF frame.readable THEN renderedLines(frame) ELSE <<>>
     IN frame' = [frame EXCEPT
                    !.stage = "returned",
                    !.out = lines,
                    !.marked = {lines[k] : k \in {j \in DOMAIN lines : lines[j] = frame.line}}]
  /\ UNCHANGED <<moduleVars, record, walk, trace, call>>

\* printStackEnhanced hands buildCodeFrame a frame
FrameInit ==
  /\ Loaded
  /\ ENV_ID = "dev"
  /\ LOG_LEVEL = ""
  /\ record = NoRecord
  /\ walk = NoWalk
  /\ trace = NoTrace
  /\ call = NoCall
  /\ frame \in Frames

FrameNext == buildCodeFrame

FrameSpec == FrameInit /\ [][FrameNext]_vars

\* ------------------------------------------------------------------ vocabulary
NativeStoring == {"info", "warn", "error", "errorEnriched"}

NativeOps == NativeStoring \cup {"debug"}

FastifyOps == {"fastify.info", "fastify.error", "fastify.warn", "fastify.debug", "fatal"}

LogOps == NativeOps \cup FastifyOps

\* the methods that hand their record to storeInDB
Offering == NativeStoring \cup {"fastify.error", "fastify.warn", "fatal"}

InitOps == {"createLogger", "createDatabaseSettled", "disposeSettled",
            "createTableSettled", "showColumnsSettled", "alterSettled"}

FaultOps == {"uncaughtException", "unhandledRejection"}

\* raw console reports among a fault event's steps
RawReports(e) == Cardinality({i \in DOMAIN e : e[i] = "raw"})

\* ------------------------------------------------------------------ C1
\* C1 (as claimed): a native call whose rank is below the minimum prints no
\* console line and issues no INSERT, in every store state
C1_BelowMinimumSilent ==
  (last.op \in NativeOps /\ last.level < last.min)
    => (last.lines = 0 /\ last.inserts = 0)

C3_SecondInitializationReturns ==
  (last.op = "createLogger" /\ last.state \in {"Initializing", "Ready"})
    => (last.opened = 0 /\ last.stmts = 0)

\* ------------------------------------------------------------------ C4
\* C4: no log method call raises to its caller, whatever the store state and
\* whether preparing the INSERT throws or its promise rejects, and no promise
\* rejection is left unhandled
C4_WriteFailureNeverSurfaces ==
  /\ unhandled = 0
  /\ last.op \in LogOps \cup FaultOps => ~last.raised

\* the promise of a detached INSERT rejected and its completion handler ran
C4_Witness ==
  /\ last.op = "insertSettled"
  /\ last.failed
  /\ unhandled = 0

\* ------------------------------------------------------------------ C5
\* C5: a debug call, on either logger, issues no INSERT in any store state and
\* under any minimum level
C5_DebugNeverStored ==
  last.op \in {"debug", "fastify.debug"} => (last.inserts = 0 /\ last.diag = 0)

\* a debug call that was rendered while the store was Ready
C5_Witness ==
  /\ last.op = "debug"
  /\ last.state = "Ready"
  /\ last.lines = 1
  /\ last.inserts = 0

\* ------------------------------------------------------------------ C6
\* C6 (as claimed): when a step of an initialization fails, nothing is raised,
\* the failure is printed and the store is not Ready afterwards; and a log call
\* made while the store is Failed is rendered and issues no INSERT
C6_FailedInitializationNotReady ==
  /\ (last.op \in InitOps /\ last.failed)
       => (~last.raised /\ last.diag > 0 /\ StoreState # "Ready")
  /\ (last.op \in LogOps /\ last.state = "Failed")
       => (last.inserts = 0 /\ last.lines = (IF last.level < last.min THEN 0 ELSE 1))

C8_HooksRegisteredOnce ==
  /\ Len(uncaughtHandlers) <= 1
  /\ Len(rejectionHandlers) <= 1
  /\ last.op \in FaultOps => (RawReports(last.effects) = 1 /\ last.inserts <= 1)

\* ------------------------------------------------------------------ C9
\* the steps of every listener run of an uncaught fault: raw console, facade,
\* exit timer, in that order
UncaughtOrder(e) ==
  /\ Len(e) > 0
  /\ Len(e) % 3 = 0
  /\ \A i \in DOMAIN e : e[i] = <<"raw", "facade", "schedule">>[((i - 1) % 3) + 1]

\* C9: on an uncaught fault each listener writes to the raw console, then calls
\* the facade's error path, then schedules the exit, also when the facade
\* throws; and the process then exits
C9_UncaughtFaultTerminates ==
  /\ [](last.op = "uncaughtException"
          => (UncaughtOrder(last.effects) /\ (timers > 0 \/ exited)))
  /\ (last.op = "uncaughtException") ~> exited

\* the facade threw inside the handler and the process has exited
C9_Witness ==
  /\ last.op = "uncaughtException"
  /\ last.failed
  /\ exited

\* ------------------------------------------------------------------ C10
\* C10: an exit timer is scheduled only by an uncaught fault or a fatal call,
\* the process exits only when a scheduled timer fires, never inside a call,
\* and no store failure, pool error or unhandled rejection schedules one
C10_TerminationOnlyByFaultOrFatal ==
  [][/\ timers' > timers => last'.op \in {"uncaughtException", "fatal"}
     /\ exited' # exited => (timers > 0 /\ calls' = calls /\ last' = last)]_vars

\* an initialization failed without scheduling anything, then a fatal call
\* scheduled the exit and the timer fired
C10_Witness ==
  /\ failed
  /\ last.op = "fatal"
  /\ exited

\* ------------------------------------------------------------------ C11
\* C11: a fatal call prints one console line at error rank whatever the minimum
\* level, calls storeInDB before it schedules the exit, issues the INSERT
\* inside the call when the store is Ready, adds one exit timer and does not
\* exit inside the call
C11_FatalStoresThenSchedules ==
  [][(calls' # calls /\ last'.op = "fatal")
       => /\ last'.level = LOG_LEVELS.error
          /\ last'.lines = 1
          /\ last'.effects = <<"log", "storeInDB", "schedule">>
          /\ (last'.state = "Ready" => (last'.inserts = 1 /\ issued' = issued + 1))
          /\ timers' = timers + 1
          /\ exited' = exited
          /\ ~exited']_vars

\* a fatal call made while Ready under minimum level error: rendered, its
\* INSERT issued, the exit scheduled and not yet taken
C11_Witness ==
  /\ last.op = "fatal"
  /\ last.state = "Ready"
  /\ last.min = LOG_LEVELS.error
  /\ last.lines = 1
  /\ last.inserts = 1
  /\ timers > 0
  /\ ~exited

\* ------------------------------------------------------------------ C12
\* the process has one logger and it was created without store settings
OnlyConsoleLogger == loggers = 1 /\ ~first.mysql

\* what a process that never touched the store looks like: no pool, no
\* bootstrap connection, no initialization started, no INSERT issued
NoStoreActivity ==
  /\ StoreState = "Uninitialized"
  /\ conn = "null"
  /\ tempOpen = 0
  /\ issued = 0
  /\ pending = 0
  /\ last.opened = 0
  /\ last.stmts = 0

\* C12 (as claimed): with one logger created without store settings nothing
\* touches the store, and every info call prints one console line
C12_NoStoreInfoRendersOne ==
  OnlyConsoleLogger
    => /\ NoStoreActivity
       /\ last.op = "info" => (last.lines = 1 /\ last.inserts = 0)

\* C12 (amended): with one logger created without store settings nothing
\* touches the store, and every info call issues no INSERT and prints one
\* console line when info is at or above the minimum level, none otherwise
C12_NoStoreInfoConsoleOnly ==
  OnlyConsoleLogger
    => /\ NoStoreActivity
       /\ last.op = "info"
            => /\ last.inserts = 0
               /\ last.lines = (IF LOG_LEVELS.info < last.min THEN 0 ELSE 1)

\* the only logger has no store settings and its second info call was rendered
C12_Witness ==
  /\ OnlyConsoleLogger
  /\ last.op = "info"
  /\ last.lines = 1
  /\ last.inserts = 0
  /\ calls = 2

\* ------------------------------------------------------------------ C13
\* C13 (as claimed): whatever loggers are created later, a call on the first
\* logger is filtered by the minimum level resolved when that logger was created
C13_FirstLoggerKeepsItsLevel ==
  (last.op \in LogOps /\ last.logger = 1)
    => /\ last.min = first.level
       /\ last.lines = (IF last.level < first.level THEN 0 ELSE 1)

\* ------------------------------------------------------------------ C14
\* the last step was a migration statement that failed: SHOW COLUMNS or ALTER
\* TABLE rejected (these are the only steps of the two that print)
MigrationFailed ==
  /\ last.op \in {"showColumnsSettled", "alterSettled"}
  /\ last.diag > 0

\* C14: when SHOW COLUMNS or ALTER TABLE fails the failure is printed once,
\* nothing is raised, the initialization is not aborted and the flag is set, so
\* the store is Ready and storeInDB passes its guard
C14_MigrationFailureStillReady ==
  MigrationFailed
    => /\ last.diag = 1
       /\ ~last.raised
       /\ ~last.failed
       /\ dbInitialized
       /\ conn # "null"
       /\ StoreState = "Ready"
       /\ ~storeInDB("obj").skipped

\* ALTER TABLE failed in the only initialization of the process, which did not
\* abort: the store is Ready
C14_Witness ==
  /\ last.op = "alterSettled"
  /\ last.diag = 1
  /\ loggers = 1
  /\ ~failed
  /\ conn = "done"
  /\ dbInitialized

\* ------------------------------------------------------------------ C15
\* C15 (as claimed): the INSERT receives the first 2000 characters of the
\* message and of the serialized metadata when they are longer, the whole text
\* when they are not, and nothing is raised
C15_TruncatedToLimit ==
  record.stage = "stored"
    => /\ record.msg = slice(record.message, SliceLimit)
       /\ record.metaStr = slice(record.meta, SliceLimit)
       /\ ~record.raised

\* ------------------------------------------------------------------ C16
\* the i-th cause of the error the walk was called with (the 0-th is the error)
RECURSIVE CauseAt(_, _)
CauseAt(w, i) ==
  IF i = 0 THEN w.err
  ELSE LET p == CauseAt(w, i - 1)
       IN IF p = NoNode THEN NoNode ELSE w.cause[p]

\* following .cause from the error ends at a missing cause
Acyclic(w) == CauseAt(w, MaxNodes) = NoNode

\* the number of causes behind the error of an acyclic graph
Depth(w) == Cardinality({i \in 1..MaxNodes : CauseAt(w, i) # NoNode})

\* C16: the chain returned holds at position i the title of the error's i-th
\* cause, so it starts at the cause and not at the error; a cause with a name
\* appears as 'name: message'; without a cycle every cause appears (for A
\* caused by B caused by C: B then C), and with no cause the chain is empty
C16_ChainStartsAtCause ==
  walk.stage = "returned"
    => /\ \A i \in DOMAIN walk.chain :
            /\ CauseAt(walk, i) # NoNode
            /\ walk.chain[i] = Title(walk, CauseAt(walk, i))
            /\ CauseAt(walk, i) \in walk.named
                 => walk.chain[i] = <<"name: message", CauseAt(walk, i)>>
       /\ Acyclic(walk) => Len(walk.chain) = Depth(walk)
       /\ walk.cause[walk.err] = NoNode => walk.chain = <<>>

\* the walk over error 1 caused by 2 caused by 3 returned the titles of 2 and 3
C16_Witness ==
  /\ walk.stage = "returned"
  /\ walk.err = 1
  /\ walk.cause[1] = 2
  /\ walk.cause[2] = 3
  /\ walk.cause[3] = NoNode
  /\ walk.named = Nodes
  /\ walk.chain = << <<"name: message", 2>>, <<"name: message", 3>> >>

\* ------------------------------------------------------------------ C17
\* following .cause from the error never ends: it runs into a cycle
Cyclic(w) == ~Acyclic(w)

\* the distinct objects reachable from the error, itself included
Reachable(w) == {CauseAt(w, i) : i \in 0..MaxNodes} \ {NoNode}

\* no object was visited twice
NoRevisit(w) ==
  \A i, j \in DOMAIN w.visited : i # j => w.visited[i] # w.visited[j]

\* C17: on a graph with a cycle the walk visits no object twice, its chain is
\* never longer than the number of distinct objects, and it returns
C17_CyclicWalkTerminates ==
  /\ [](walk.stage # "none" /\ Cyclic(walk)
          => /\ NoRevisit(walk)
             /\ Len(walk.chain) <= Cardinality(Reachable(walk)))
  /\ (walk.stage = "loop" /\ Cyclic(walk)) ~> (walk.stage = "returned")

\* the walk over error 1 caused by 2, which is its own cause, returned after
\* visiting 1 and 2 once each
C17_Witness ==
  /\ walk.stage = "returned"
  /\ walk.err = 1
  /\ walk.cause[1] = 2
  /\ walk.cause[2] = 2
  /\ walk.visited = <<1, 2>>
  /\ Len(walk.chain) = 1

\* ------------------------------------------------------------------ C18
\* C18: outside dev mode a call of error or errorEnriched makes no file-system
\* call for a code frame, whatever stack its argument carries
C18_NoCodeFrameOutsideDev ==
  (trace.stage = "printed" /\ ENV_ID # "dev")
    => (trace.existsSync = 0 /\ trace.readFileSync = 0)

\* outside dev an Error whose stack has a resolvable frame in a file that
\* exists went through error(): the stack was printed and no file was touched
C18_Witness ==
  /\ trace.stage = "printed"
  /\ ENV_ID = "prod"
  /\ trace.method = "error"
  /\ trace.isError
  /\ trace.stack = "frame"
  /\ trace.fileExists
  /\ trace.lines = 1
  /\ trace.readFileSync = 0

\* ------------------------------------------------------------------ C19
\* C19: a log call on either logger prints one console line when the rank of
\* its level is at or above the minimum in force (the module's currentLogLevel)
\* and none when it is below; under minimum warn, info and debug print nothing
\* and warn and error one line each
C19_ConsoleLineIffAtOrAboveMinimum ==
  last.op \in LogOps
    => /\ (last.lines = 1) <=> (last.level >= last.min)
       /\ last.lines \in {0, 1}
       /\ last.min = LOG_LEVELS.warn
            => /\ last.level \in {LOG_LEVELS.debug, LOG_LEVELS.info} => last.lines = 0
               /\ last.level \in {LOG_LEVELS.warn, LOG_LEVELS.error} => last.lines = 1

\* under minimum warn the only logger's warn call, the second call of the
\* process, was printed
C19_Witness ==
  /\ loggers = 1
  /\ first.level = LOG_LEVELS.warn
  /\ last.op = "warn"
  /\ last.min = LOG_LEVELS.warn
  /\ last.lines = 1
  /\ calls = 2

\* ------------------------------------------------------------------ C20
\* this step assigns conn: an initialization resumes after dispose and creates
\* the main pool
ConnAssigned ==
  /\ init'["dispose"] < init["dispose"]
  /\ init'["createTable"] > init["createTable"]

\* this step assigns dbInitialized = true: an initialization leaves the
\* migration
FlagAssigned ==
  \/ init'["alter"] < init["alter"]
  \/ (init'["showColumns"] < init["showColumns"] /\ init'["alter"] = init["alter"])

\* C20 (as claimed): conn and dbInitialized are each assigned once per process:
\* conn only while it is still null, the flag only while it is still unset
C20_SharedStateWrittenOnce ==
  [][/\ ConnAssigned => conn = "null"
     /\ FlagAssigned => ~dbInitialized]_vars

\* ------------------------------------------------------------------ C21
\* the changes of StoreState the initializer can make
StoreTransitions ==
  {<<"Uninitialized", "Initializing">>, <<"Initializing", "Ready">>,
   <<"Initializing", "Failed">>, <<"Failed", "Initializing">>}

\* this step is a createLogger call
CreateLoggerStep == loggers' = loggers + 1

\* C21: StoreState changes only from Uninitialized to Initializing, from
\* Initializing to Ready or to Failed, and from Failed to Initializing; it
\* leaves Uninitialized and Failed only in a createLogger call (a call whose
\* bootstrap pool cannot be created passes through Initializing inside the
\* call and ends Failed); and once Ready it stays Ready
C21_StoreStateTransitions ==
  [][/\ StoreState' # StoreState
          => \/ <<StoreState, StoreState'>> \in StoreTransitions
             \/ /\ StoreState = "Uninitialized"
                /\ StoreState' = "Failed"
                /\ CreateLoggerStep
                /\ last'.failed
     /\ (StoreState \in {"Uninitialized", "Failed"} /\ StoreState' # StoreState)
          => CreateLoggerStep
     /\ StoreState = "Ready" => StoreState' = "Ready"]_vars

\* a new createLogger call started an attempt from Failed
C21_Witness ==
  /\ last.op = "createLogger"
  /\ last.state = "Failed"
  /\ StoreState = "Initializing"
  /\ failed

\* ------------------------------------------------------------------ C23
\* the order of the awaits of one initialization: each is reached from the one
\* before it
StepOrder ==
  {<<"createDb", "dispose">>, <<"dispose", "createTable">>,
   <<"createTable", "showColumns">>, <<"showColumns", "alter">>}

\* an initialization arrives at await s in this step
Arrives(s) == init'[s] > init[s]

\* an initialization leaves await s in this step
Leaves(s) == init'[s] < init[s]

\* C23: an initialization reaches CREATE DATABASE only inside createLogger
\* and every later await only from the await before it, whose statement has
\* settled; the bootstrap connection is closed and the pool created in the
\* step that leaves dispose; and the flag is set only by a step that leaves
\* the migration, which is entered only after CREATE TABLE succeeded
C23_InitializationStepOrder ==
  [][/\ \A s \in InProgress :
          Arrives(s) => \/ (s = "createDb" /\ CreateLoggerStep /\ tempOpen' = tempOpen + 1)
                        \/ \E p \in InProgress : <<p, s>> \in StepOrder /\ Leaves(p)
     /\ Arrives("createTable") => (tempOpen' = tempOpen - 1 /\ conn' = "createTable")
     /\ Arrives("showColumns") => (~last'.failed /\ last'.op = "createTableSettled")
     /\ (dbInitialized' /\ ~dbInitialized)
          => (FlagAssigned /\ ~Arrives("showColumns") /\ conn' # "null")]_vars

\* the only initialization of the process went through every step, ALTER
\* TABLE included, and set the flag
C23_Witness ==
  /\ loggers = 1
  /\ last.op = "alterSettled"
  /\ dbInitialized
  /\ conn = "done"
  /\ tempOpen = 0
  /\ ~failed

\* ------------------------------------------------------------------ C25
\* where the call that created a pool stands once that pool's own CREATE TABLE
\* has succeeded
TableCreated == {"showColumns", "alter", "done"}

\* C25 (as claimed): an INSERT is issued only on a pool whose own CREATE TABLE
\* has completed successfully
C25_InsertOnPoolWithTable ==
  (last.op \in LogOps \cup FaultOps /\ last.inserts > 0) => conn \in TableCreated

\* ------------------------------------------------------------------ C26
\* C26 (as claimed): a call on a logger created without store settings issues
\* no INSERT, whatever other loggers the process has
C26_ConsoleLoggerNeverInserts ==
  (last.op \in LogOps /\ last.logger = 1 /\ ~first.mysql) => last.inserts = 0

\* ------------------------------------------------------------------ C27
\* C27 (as claimed): a bootstrap connection stays open only while the
\* initialization that opened it is still at CREATE DATABASE or at dispose; no
\* initialization that has moved on or ended leaves one open
C27_BootstrapConnectionClosed ==
  tempOpen <= init["createDb"] + init["dispose"]

\* ------------------------------------------------------------------ C22
\* the ways safeToStringMessage turns a value that is not an Error into text
Coercions == {"itself", ".message", "json", "String()"}

\* C22: error and errorEnriched called by the application with a value that
\* is not an Error raise nothing and render and store the same message, the
\* value coerced to text; and errorEnriched always renders and stores the
\* context combined with the Error's own message or with the coerced value
C22_NonErrorCoerced ==
  (call.stage = "returned" /\ call.via \in {"error", "errorEnriched"})
    => /\ call.value # "Error"
            => /\ ~call.out.raised
               /\ call.out.line.text[1] \in Coercions
               /\ call.out.line.text[2] = call.value
               /\ call.out.stored = call.out.line
       /\ call.via = "errorEnriched"
            => /\ call.out.line.context
               /\ call.out.stored.context
               /\ call.out.stored.text = call.out.line.text
               /\ call.out.line.text[2] = call.value
               /\ call.value = "Error" => call.out.line.text[1] = ".message"

\* errorEnriched was called with an object whose serialization is undefined:
\* the catch coerced it with String() and the call returned
C22_Witness ==
  /\ call.stage = "returned"
  /\ call.via = "errorEnriched"
  /\ call.value = "unserializable"
  /\ call.out.line = [context |-> TRUE, text |-> <<"String()", "unserializable">>]
  /\ ~call.out.raised

\* ------------------------------------------------------------------ C28
\* C28 (as claimed): the record a fault handler routes through logger.error
\* for a fault that is an Error is rendered and stored by the fault's own
\* message, and the fault's cause chain is walked
C28_FaultProcessedAsError ==
  (call.stage = "returned"
     /\ call.via \in {"uncaughtException", "unhandledRejection"}
     /\ call.value = "Error")
    => /\ call.out.line.text = <<".message", call.value>>
       /\ call.out.stored.text = <<".message", call.value>>
       /\ call.out.walked

\* ------------------------------------------------------------------ C24
\* the numbers from a to b in order, none when a > b
Interval(a, b) == [k \in 1..max(0, b - a + 1) |-> a + k - 1]

\* C24 (as claimed): for a file of N lines buildCodeFrame returns nothing when
\* the frame's line is outside 1..N or the file cannot be read, and otherwise
\* exactly the lines max(1, line - 2) .. min(N, line + 2), at most five, the
\* frame's line among them and the only one marked
C24_WindowAroundCulprit ==
  frame.stage = "returned"
    => IF frame.readable /\ frame.line \in 1..frame.length
         THEN /\ frame.out = Interval(max(1, frame.line - 2),
                                      min(frame.length, frame.line + 2))
              /\ Len(frame.out) <= 5
              /\ frame.marked = {frame.line}
         ELSE frame.out = <<>>

====
